---- MODULE Spec2Model ----
(***************************************************************************)
(* Model of the comma_separated crate (src/lib.rs): CommaSeparatedIterator *)
(* splits a string on the commas that lie outside single or double quotes. *)
(* The iterator's only field is `remaining`, a slice of the input; next()  *)
(* consumes a token from its front and next_back() from its back.          *)
(***************************************************************************)
EXTENDS Integers, Sequences, FiniteSets, TLC

(* ---------- bounds of the model ---------- *)
\* longest input text explored
MaxLen == 5
\* longest input text explored under the fair specification
MaxLenFair == 4

(* ---------- characters ---------- *)
Comma == ","
DQuote == "\""
SQuote == "'"
Backslash == "\\"
Other == "a"
\* the characters the two scanners distinguish, plus one ordinary character
Alphabet == {Comma, DQuote, SQuote, Backslash, Other}
\* Option<char>::None of peek() at the start of the window
NoChar == "none"

(* ---------- enum CommaSeparatedIteratorState, enum Quote ---------- *)
Single == "Single"
Double == "Double"
Default == [tag |-> "Default", quote |-> "-"]
Quoted(q) == [tag |-> "Quoted", quote |-> q]
QuotedEscape(q) == [tag |-> "QuotedEscape", quote |-> q]
\* the arm of the match that leaves the function with Some(result)
ReturnSome == [tag |-> "Return", quote |-> "-"]

VARIABLES
  text,           \* the input string the iterator was built over
  remaining,      \* self.remaining as the byte range [lo, hi) of text
  yielded_front,  \* ranges returned by next() so far, in call order
  yielded_back,   \* ranges returned by next_back() so far, in call order
  last,           \* the last call: its name, window before it, its result
  scan            \* the scan states the last call's loop assigned, in order

vars == <<text, remaining, yielded_front, yielded_back, last, scan>>

\* &text[lo..hi]
Slice(t, lo, hi) == SubSeq(t, lo + 1, hi)

\* str::is_empty on a window
is_empty_never(r) == FALSE
is_empty(r) == r.lo = r.hi

\* the match of next(), lines 53-79, arms in source order
next_match_other_quote_closes(state, c) ==
  IF state.tag = "Default" /\ c = DQuote THEN Quoted(Double)
  ELSE IF state.tag = "Default" /\ c = SQuote THEN Quoted(Single)
  ELSE IF state.tag = "Quoted" /\ c \in {DQuote, SQuote} THEN Default
  ELSE IF state.tag = "Quoted" /\ c = Backslash THEN QuotedEscape(state.quote)
  ELSE IF state.tag = "Quoted" THEN Quoted(state.quote)
  ELSE IF state.tag = "QuotedEscape" THEN Quoted(state.quote)
  ELSE IF state.tag = "Default" /\ c = Comma THEN ReturnSome
  ELSE Default
next_match_no_escape(state, c) ==
  IF state.tag = "Default" /\ c = DQuote THEN Quoted(Double)
  ELSE IF state.tag = "Default" /\ c = SQuote THEN Quoted(Single)
  ELSE IF \/ (state = Quoted(Double) /\ c = DQuote)
          \/ (state = Quoted(Single) /\ c = SQuote) THEN Default
  ELSE IF state.tag = "Quoted" THEN Quoted(state.quote)
  ELSE IF state.tag = "QuotedEscape" THEN Quoted(state.quote)
  ELSE IF state.tag = "Default" /\ c = Comma THEN ReturnSome
  ELSE Default
next_match_escape_anywhere(state, c) ==
  IF state.tag = "Default" /\ c = DQuote THEN Quoted(Double)
  ELSE IF state.tag = "Default" /\ c = SQuote THEN Quoted(Single)
  ELSE IF \/ (state = Quoted(Double) /\ c = DQuote)
          \/ (state = Quoted(Single) /\ c = SQuote) THEN Default
  ELSE IF state.tag = "Quoted" /\ c = Backslash THEN QuotedEscape(state.quote)
  ELSE IF state.tag = "Default" /\ c = Backslash THEN QuotedEscape(Double)
  ELSE IF state.tag = "Quoted" THEN Quoted(state.quote)
  ELSE IF state.tag = "QuotedEscape" THEN Quoted(state.quote)
  ELSE IF state.tag = "Default" /\ c = Comma THEN ReturnSome
  ELSE Default
next_match(state, c) ==
  IF state.tag = "Default" /\ c = DQuote THEN Quoted(Double)
  ELSE IF state.tag = "Default" /\ c = SQuote THEN Quoted(Single)
  ELSE IF \/ (state = Quoted(Double) /\ c = DQuote)
          \/ (state = Quoted(Single) /\ c = SQuote) THEN Default
  ELSE IF state.tag = "Quoted" /\ c = Backslash THEN QuotedEscape(state.quote)
  ELSE IF state.tag = "Quoted" THEN Quoted(state.quote)
  ELSE IF state.tag = "QuotedEscape" THEN Quoted(state.quote)
  ELSE IF state.tag = "Default" /\ c = Comma THEN ReturnSome
  ELSE Default

\* the for loop of next(), lines 52-80, over the window w from index i:
\* found is TRUE with the comma's index when the loop returned, FALSE when
\* it ran off the end; states are the values assigned to `state`
RECURSIVE next_loop(_, _, _, _)
next_loop(w, i, state, visited) ==
  IF i >= Len(w) THEN [found |-> FALSE, i |-> i, states |-> visited]
  ELSE LET m == next_match(state, w[i + 1])
       IN IF m = ReturnSome
          THEN [found |-> TRUE, i |-> i, states |-> visited]
          ELSE next_loop(w, i + 1, m, Append(visited, m))

\* the match of next_back(), lines 97-124; peek is the character to the
\* left of c (the next one the reversed iterator yields) or NoChar
next_back_match_with_escape(state, c, peek) ==
  IF state.tag = "Default" /\ c = DQuote THEN Quoted(Double)
  ELSE IF state.tag = "Default" /\ c = SQuote THEN Quoted(Single)
  ELSE IF \/ (state = Quoted(Double) /\ c = DQuote)
          \/ (state = Quoted(Single) /\ c = SQuote)
       THEN IF peek = Backslash THEN Quoted(state.quote) ELSE Default
  ELSE IF state.tag = "Quoted" /\ c = Backslash THEN QuotedEscape(state.quote)
  ELSE IF state.tag = "Quoted" THEN Quoted(state.quote)
  ELSE IF state.tag = "QuotedEscape" THEN Quoted(state.quote)
  ELSE IF state.tag = "Default" /\ c = Comma THEN ReturnSome
  ELSE Default
next_back_match(state, c, peek) ==
  IF state.tag = "Default" /\ c = DQuote THEN Quoted(Double)
  ELSE IF state.tag = "Default" /\ c = SQuote THEN Quoted(Single)
  ELSE IF \/ (state = Quoted(Double) /\ c = DQuote)
          \/ (state = Quoted(Single) /\ c = SQuote)
       THEN IF peek = Backslash THEN Quoted(state.quote) ELSE Default
  ELSE IF state.tag = "Quoted" THEN Quoted(state.quote)
  ELSE IF state.tag = "QuotedEscape" THEN Quoted(state.quote)
  ELSE IF state.tag = "Default" /\ c = Comma THEN ReturnSome
  ELSE Default

\* the while loop of next_back(), lines 96-125, from index i down to 0
RECURSIVE next_back_loop(_, _, _, _)
next_back_loop(w, i, state, visited) ==
  IF i < 0 THEN [found |-> FALSE, i |-> i, states |-> visited]
  ELSE LET peek == IF i >= 1 THEN w[i] ELSE NoChar
           m == next_back_match(state, w[i + 1], peek)
       IN IF m = ReturnSome
          THEN [found |-> TRUE, i |-> i, states |-> visited]
          ELSE next_back_loop(w, i - 1, m, Append(visited, m))

\* &self.remaining[0..i] and &self.remaining[i + 1..], lines 74-75
next_result_with_comma(r, i) == [lo |-> r.lo, hi |-> r.lo + i + 1]
next_result(r, i) == [lo |-> r.lo, hi |-> r.lo + i]
next_rest_keeps_comma(r, i) == [lo |-> r.lo + i, hi |-> r.hi]
next_rest(r, i) == [lo |-> r.lo + i + 1, hi |-> r.hi]

\* &self.remaining[i + 1..] and &self.remaining[0..i], lines 119-120
next_back_result_with_comma(r, i) == [lo |-> r.lo + i, hi |-> r.hi]
next_back_result(r, i) == [lo |-> r.lo + i + 1, hi |-> r.hi]
next_back_rest_keeps_suffix(r, i) == [lo |-> r.lo + i + 1, hi |-> r.hi]
next_back_rest(r, i) == [lo |-> r.lo, hi |-> r.lo + i]

\* self.remaining = "" after the last token of next(), line 82, and of
\* next_back(), line 128: the window closes at the end it was scanned to
emptied_not(r) == r
emptied(r) == [lo |-> r.hi, hi |-> r.hi]
emptied_back(r) == [lo |-> r.lo, hi |-> r.lo]

NoToken == [lo |-> 0, hi |-> 0]

\* let mut state = CommaSeparatedIteratorState::Default, lines 49 and 93:
\* the scan state is a local of each call
start_state_in_quote == Quoted(Double)
start_state == Default

\* CommaSeparatedIterator::new over every text of the bounded alphabet
Init ==
  /\ text \in UNION {[1..n -> Alphabet] : n \in 0..MaxLen}
  /\ remaining = [lo |-> 0, hi |-> Len(text)]
  /\ yielded_front = <<>>
  /\ yielded_back = <<>>
  /\ last = [op |-> "new", some |-> FALSE, tok |-> NoToken, win |-> remaining]
  /\ scan = <<>>

\* Iterator::next, lines 44-84
next ==
  /\ UNCHANGED text
  /\ IF is_empty(remaining)
     THEN /\ last' = [op |-> "next", some |-> FALSE, tok |-> NoToken,
                      win |-> remaining]
          /\ scan' = <<>>
          /\ UNCHANGED <<remaining, yielded_front, yielded_back>>
     ELSE LET w == Slice(text, remaining.lo, remaining.hi)
              r == next_loop(w, 0, start_state, <<>>)
              result == IF r.found THEN next_result(remaining, r.i)
                        ELSE remaining
          IN /\ remaining' = IF r.found THEN next_rest(remaining, r.i)
                             ELSE emptied(remaining)
             /\ yielded_front' = Append(yielded_front, result)
             /\ last' = [op |-> "next", some |-> TRUE, tok |-> result,
                         win |-> remaining]
             /\ scan' = r.states
             /\ UNCHANGED yielded_back

\* DoubleEndedIterator::next_back, lines 88-130
next_back ==
  /\ UNCHANGED text
  /\ IF is_empty(remaining)
     THEN /\ last' = [op |-> "next_back", some |-> FALSE, tok |-> NoToken,
                      win |-> remaining]
          /\ scan' = <<>>
          /\ UNCHANGED <<remaining, yielded_front, yielded_back>>
     ELSE LET w == Slice(text, remaining.lo, remaining.hi)
              r == next_back_loop(w, Len(w) - 1, start_state, <<>>)
              result == IF r.found THEN next_back_result(remaining, r.i)
                        ELSE remaining
          IN /\ remaining' = IF r.found THEN next_back_rest(remaining, r.i)
                             ELSE emptied_back(remaining)
             /\ yielded_back' = Append(yielded_back, result)
             /\ last' = [op |-> "next_back", some |-> TRUE, tok |-> result,
                         win |-> remaining]
             /\ scan' = r.states
             /\ UNCHANGED yielded_front

Next == next \/ next_back

Spec == Init /\ [][Next]_vars

\* CommaSeparatedIterator::new over the shorter texts
InitFair == Init /\ Len(text) <= MaxLenFair

\* a caller that keeps calling: some call is always eventually made
FairSpec == InitFair /\ [][Next]_vars /\ WF_vars(next) /\ WF_vars(next_back)

\* the scan state of repeated next() calls before each position of w: the
\* match of lines 53-79 applied from Default, a call that returns at a
\* comma being followed by a call that starts in Default after it
RECURSIVE next_states(_, _, _, _)
next_states(w, j, state, acc) ==
  IF j > Len(w) THEN acc
  ELSE LET m == next_match(state, w[j])
           after == IF m = ReturnSome THEN Default ELSE m
       IN next_states(w, j + 1, after, Append(acc, state))

\* Iterator::collect over next() on a window r of t: the ranges next()
\* returns when called until it returns None
RECURSIVE forward_tokens(_, _)
forward_tokens(t, r) ==
  IF is_empty(r) THEN <<>>
  ELSE LET res == next_loop(Slice(t, r.lo, r.hi), 0, Default, <<>>)
       IN IF res.found
          THEN <<next_result(r, res.i)>> \o forward_tokens(t, next_rest(r, res.i))
          ELSE <<r>>

(* ---------- vocabulary of the properties ---------- *)
RECURSIVE Reverse(_)
Reverse(s) == IF s = <<>> THEN <<>> ELSE Append(Reverse(Tail(s)), Head(s))

\* the strings behind a sequence of ranges
Contents(toks) == [k \in DOMAIN toks |-> Slice(text, toks[k].lo, toks[k].hi)]

\* the strings joined with one comma between consecutive ones
RECURSIVE Join(_)
Join(strs) ==
  IF strs = <<>> THEN <<>>
  ELSE IF Len(strs) = 1 THEN strs[1]
  ELSE strs[1] \o <<Comma>> \o Join(Tail(strs))

\* split on every comma: the fields between commas and string boundaries
RECURSIVE NaiveSplit(_)
NaiveSplit(s) ==
  IF \A j \in DOMAIN s : s[j] # Comma THEN <<s>>
  ELSE LET c == CHOOSE j \in DOMAIN s :
                  s[j] = Comma /\ \A k \in 1..(j - 1) : s[k] # Comma
       IN <<SubSeq(s, 1, c - 1)>> \o NaiveSplit(SubSeq(s, c + 1, Len(s)))

WindowEmpty == remaining.lo = remaining.hi
WindowLen == remaining.hi - remaining.lo
Exhausted == last.op # "new" /\ ~last.some
\* only next() has been called and nothing is left
ForwardDone == yielded_back = <<>> /\ WindowEmpty
\* only next_back() has been called and nothing is left
BackwardDone == yielded_front = <<>> /\ WindowEmpty
LastWindow == Slice(text, last.win.lo, last.win.hi)
TokLen == last.tok.hi - last.tok.lo

\* Quoted spans, stated on positions instead of scan states.  Inside a span
\* opened at p, position q is escaped when the run of backslashes directly
\* before it (and after p) has odd length.
EscapedIn(w, p, q) ==
  LET run == CHOOSE k \in 0..(q - p - 1) :
               /\ \A j \in 1..k : w[q - j] = Backslash
               /\ (k = q - p - 1 \/ w[q - k - 1] # Backslash)
  IN run % 2 = 1
\* q closes the span opened at p, provided nothing closed it before q
ClosesAt(w, p, q) == q > p /\ w[q] = w[p] /\ ~EscapedIn(w, p, q)
\* InSpan(w)[j]: position j of w lies after an opening quote met outside
\* any span and not after that span's closing quote (the closing quote
\* itself counts as inside)
InSpan(w) ==
  LET cov[j \in 1..Len(w)] ==
        \E p \in 1..(j - 1) :
           /\ w[p] \in {DQuote, SQuote}
           /\ ~cov[p]
           /\ ~\E q \in (p + 1)..(j - 1) : ClosesAt(w, p, q)
  IN cov
\* the commas of w outside every quoted span
DelimitingCommas(w) == {j \in 1..Len(w) : w[j] = Comma /\ ~InSpan(w)[j]}
MinOf(S) == CHOOSE m \in S : \A x \in S : m <= x

TypeOK ==
  /\ remaining.lo \in 0..Len(text) /\ remaining.hi \in 0..Len(text)
  /\ last.op \in {"new", "next", "next_back"}

(* ---------- C1 ---------- *)
\* C1: round trip: once next() alone has consumed the whole input, the
\* tokens it yielded, joined with single commas, are the input text.
C1_RoundTrip == ForwardDone => Join(Contents(yielded_front)) = text

(* ---------- C2 ---------- *)
\* C2: interleaving: once any mix of next() and next_back() calls has
\* emptied the window, the tokens in left-to-right order (those of next()
\* followed by those of next_back() reversed) are the tokens next() alone
\* yields on the same input.
C2_Interleaving ==
  WindowEmpty =>
    Contents(yielded_front \o Reverse(yielded_back))
      = Contents(forward_tokens(text, [lo |-> 0, hi |-> Len(text)]))

(* ---------- C3 ---------- *)
\* C3: reverse equivalence: the tokens of next_back() alone, called until
\* the window is empty, are the reverse of the tokens of next() alone.
C3_ReverseEquivalence ==
  BackwardDone =>
    Contents(yielded_back)
      = Reverse(Contents(forward_tokens(text, [lo |-> 0, hi |-> Len(text)])))

(* ---------- C4 ---------- *)
\* C4: on a non-empty input without quote characters the tokens of next()
\* alone are the naive split of the input on commas, empty fields included.
\* (The empty input, which yields no token, is the subject of C8.)
C4_NaiveSplit ==
  (/\ ForwardDone
   /\ text # <<>>
   /\ \A j \in DOMAIN text : text[j] \notin {DQuote, SQuote})
  => Contents(yielded_front) = NaiveSplit(text)

(* ---------- C5 ---------- *)
\* C5: a next() call that yields a token cuts the window at its first comma
\* outside every quoted span (a quote of the other kind does not close a
\* span, a comma right after a closing quote is outside) and at no comma
\* inside one; without such a comma the token is the whole window.  The
\* token is the window's prefix, quote characters included.
C5_QuotedCommas ==
  (last.op = "next" /\ last.some) =>
    LET w == LastWindow
        D == DelimitingCommas(w)
    IN /\ last.tok.lo = last.win.lo
       /\ \A j \in 1..TokLen : w[j] = Comma => InSpan(w)[j]
       /\ IF D = {}
          THEN last.tok = last.win /\ WindowEmpty
          ELSE /\ TokLen = MinOf(D) - 1
               /\ remaining = [lo |-> last.win.lo + MinOf(D), hi |-> last.win.hi]

\* next() has cut "',", off a window right after its closing quote
C5_Witness ==
  /\ last.op = "next" /\ last.some
  /\ Slice(text, last.tok.lo, last.tok.hi) = <<DQuote, SQuote, Comma, DQuote>>
  /\ last.win.hi - last.win.lo = 5
  /\ WindowEmpty

(* ---------- C6 ---------- *)
\* state of the last call's scan before it looked at position j of the window
ScanBefore(j) == IF j = 1 THEN Default ELSE scan[j - 1]

\* C6: in the scan of a next() call, a backslash met in Quoted(k) gives
\* QuotedEscape(k); the character met in QuotedEscape(k), whatever it is,
\* gives Quoted(k) and does not end the token; a comma met in Quoted or
\* QuotedEscape does not end the token; the token is the scanned prefix of
\* the window, verbatim.
C6_EscapePreserved ==
  (last.op = "next" /\ last.some) =>
    LET w == LastWindow
    IN /\ \A j \in DOMAIN scan :
            /\ (ScanBefore(j).tag = "Quoted" /\ w[j] = Backslash)
                  => scan[j] = QuotedEscape(ScanBefore(j).quote)
            /\ ScanBefore(j).tag = "QuotedEscape"
                  => scan[j] = Quoted(ScanBefore(j).quote)
       /\ \A j \in 1..Len(w) :
            (j - 1 <= Len(scan) /\ ScanBefore(j).tag # "Default")
              => j <= Len(scan)
       /\ last.tok = [lo |-> last.win.lo, hi |-> last.win.lo + Len(scan)]
       /\ \A j \in 1..TokLen : text[last.tok.lo + j] = w[j]

\* next() returned "\"," whole: escaped quote, comma, closing quote
C6_Witness ==
  /\ last.op = "next" /\ last.some
  /\ Slice(text, last.tok.lo, last.tok.hi)
       = <<DQuote, Backslash, DQuote, Comma, DQuote>>
  /\ scan[2] = QuotedEscape(Double)
  /\ scan[3] = Quoted(Double)
  /\ scan[5] = Default

(* ---------- C7 ---------- *)
\* C7: empty tokens are yielded: on a non-empty input with k commas outside
\* quoted spans next() alone yields k + 1 tokens (three for ",,").
C7_EmptyTokens ==
  (ForwardDone /\ text # <<>>)
    => Len(yielded_front) = Cardinality(DelimitingCommas(text)) + 1

(* ---------- C8 ---------- *)
\* C8: a call on an empty window returns None, yields nothing and leaves
\* the window as it is; over the empty input no token is ever yielded.
C8_EmptyWindow ==
  /\ [](text = <<>> => (yielded_front = <<>> /\ yielded_back = <<>>))
  /\ [][WindowEmpty =>
          /\ ~last'.some
          /\ remaining' = remaining
          /\ yielded_front' = yielded_front
          /\ yielded_back' = yielded_back]_vars

\* a call on the iterator over the empty input has returned None
C8_Witness == text = <<>> /\ Exhausted

(* ---------- C9 ---------- *)
\* C9: a call on a non-empty window strictly shrinks it; the tokens yielded
\* never outnumber the characters of the input; a caller that keeps calling
\* eventually gets None.
C9_Finite ==
  /\ [][~WindowEmpty => WindowLen' < WindowLen]_vars
  /\ [](Len(yielded_front) + Len(yielded_back) <= Len(text))
  /\ <>Exhausted

\* an input of at least two characters gave as many tokens as characters
C9_Witness ==
  /\ Len(text) >= 2
  /\ Len(yielded_front) + Len(yielded_back) = Len(text)
  /\ yielded_front # <<>> /\ yielded_back # <<>>
  /\ Exhausted

(* ---------- C10 ---------- *)
\* the offsets of text a range covers
Chars(r) == r.lo..(r.hi - 1)
AllYielded == yielded_front \o yielded_back

\* C10: after a call returned None every later call returns None; no two
\* yielded tokens share a character of the input and the window shares
\* none with a yielded token.
C10_NotRestartable ==
  /\ [][Exhausted => ~last'.some]_vars
  /\ [](/\ \A a, b \in DOMAIN AllYielded :
             a # b => Chars(AllYielded[a]) \cap Chars(AllYielded[b]) = {}
        /\ \A a \in DOMAIN AllYielded :
             Chars(AllYielded[a]) \cap Chars(remaining) = {})

\* tokens came from both ends and a call has since returned None
C10_Witness ==
  /\ Exhausted
  /\ \E a \in DOMAIN yielded_front : yielded_front[a].hi > yielded_front[a].lo
  /\ \E b \in DOMAIN yielded_back : yielded_back[b].hi > yielded_back[b].lo

(* ---------- C11 ---------- *)
\* C11: the window is a range [lo, hi) of the input with
\* 0 <= lo <= hi <= length; next() only advances lo and leaves hi alone
\* unless it empties the window, next_back() only retreats hi and leaves lo
\* alone unless it empties the window; the input text never changes.
C11_WindowInvariant ==
  /\ [](/\ 0 <= remaining.lo
        /\ remaining.lo <= remaining.hi
        /\ remaining.hi <= Len(text))
  /\ [][/\ text' = text
        /\ last'.op = "next" =>
             /\ remaining'.lo >= remaining.lo
             /\ (remaining'.hi = remaining.hi \/ remaining'.lo = remaining'.hi)
        /\ last'.op = "next_back" =>
             /\ remaining'.hi <= remaining.hi
             /\ (remaining'.lo = remaining.lo \/ remaining'.lo = remaining'.hi)]_vars

\* both ends of a window have moved inwards and something is left between
C11_Witness ==
  /\ remaining.lo > 0
  /\ remaining.hi < Len(text)
  /\ remaining.lo < remaining.hi
  /\ yielded_front # <<>> /\ yielded_back # <<>>

(* ---------- C12 ---------- *)
\* the last call was a next() whose loop ran off the end of its window
\* inside a quote
UnterminatedNext ==
  /\ last.op = "next" /\ last.some
  /\ scan # <<>>
  /\ Len(scan) = last.win.hi - last.win.lo
  /\ scan[Len(scan)].tag \in {"Quoted", "QuotedEscape"}

\* C12: a next() whose scan ends the window in Quoted or QuotedEscape
\* returns the whole window as its token and empties the window; the call
\* after it returns None.
C12_Unterminated ==
  /\ [](UnterminatedNext => (last.tok = last.win /\ WindowEmpty))
  /\ [][UnterminatedNext => ~last'.some]_vars

\* next() returned a token that ends on a backslash inside an open quote,
\* after an earlier token
C12_Witness ==
  /\ UnterminatedNext
  /\ scan[Len(scan)].tag = "QuotedEscape"
  /\ Len(yielded_front) = 2

(* ---------- C13 ---------- *)
QuoteChar(q) == IF q = Double THEN DQuote ELSE SQuote
\* position in the window of the k-th character a next_back() scan visits
BackPos(k) == (last.win.hi - last.win.lo) - k + 1
\* state of the last next_back() scan before its k-th visit
BackBefore(k) == IF k = 1 THEN Default ELSE scan[k - 1]

\* C13: when a next_back() scan in Quoted(kind) visits the matching quote,
\* it stays in Quoted(kind) if the character to the left is a backslash and
\* goes to Default otherwise, and it stays exactly when the forward scan of
\* the same window is in QuotedEscape at that quote.
C13_BackwardEscape ==
  (last.op = "next_back" /\ last.some) =>
    LET w == LastWindow
        fwd == next_states(w, 1, Default, <<>>)
    IN \A k \in DOMAIN scan :
         (/\ BackBefore(k).tag = "Quoted"
          /\ w[BackPos(k)] = QuoteChar(BackBefore(k).quote))
         => /\ scan[k] = IF BackPos(k) > 1 /\ w[BackPos(k) - 1] = Backslash
                         THEN Quoted(BackBefore(k).quote)
                         ELSE Default
            /\ scan[k].tag = "Quoted" <=> fwd[BackPos(k)].tag = "QuotedEscape"

(* ---------- C14 ---------- *)
\* C14: in a next() scan a backslash met in Default leaves the state
\* Default; a comma right after it ends the token there and a quote right
\* after it opens a quoted span.
C14_BackslashOutsideQuotes ==
  (last.op = "next" /\ last.some) =>
    LET w == LastWindow
    IN \A j \in DOMAIN scan :
         (ScanBefore(j) = Default /\ w[j] = Backslash)
         => /\ scan[j] = Default
            /\ (j < Len(w) /\ w[j + 1] = Comma)
                 => /\ TokLen = j
                    /\ remaining = [lo |-> last.win.lo + j + 1, hi |-> last.win.hi]
            /\ (j < Len(w) /\ w[j + 1] = DQuote)
                 => (j + 1 <= Len(scan) /\ scan[j + 1] = Quoted(Double))
            /\ (j < Len(w) /\ w[j + 1] = SQuote)
                 => (j + 1 <= Len(scan) /\ scan[j + 1] = Quoted(Single))

\* next() cut a lone backslash off at the comma after it, and its next call
\* opened a span at the quote after a backslash
C14_Witness ==
  /\ last.op = "next" /\ last.some
  /\ Len(yielded_front) = 2
  /\ Slice(text, yielded_front[1].lo, yielded_front[1].hi) = <<Backslash>>
  /\ Slice(text, last.tok.lo, last.tok.hi) = <<Backslash, DQuote, Comma>>
  /\ scan = <<Default, Quoted(Double), Quoted(Double)>>

(* ---------- C15 ---------- *)
\* C15: every call starts its scan in Default: the first state it assigns
\* is the one Default gives on the first character visited, and the token,
\* the scan and the window left are those of a scan of the call's window
\* from Default, whatever calls came before.
C15_ScanStatePerCall ==
  last.some =>
    LET w == LastWindow
        first == IF last.op = "next" THEN w[1] ELSE w[Len(w)]
        r == IF last.op = "next"
             THEN next_loop(w, 0, Default, <<>>)
             ELSE next_back_loop(w, Len(w) - 1, Default, <<>>)
        cut == IF last.op = "next"
               THEN <<next_result(last.win, r.i), next_rest(last.win, r.i)>>
               ELSE <<next_back_result(last.win, r.i),
                      next_back_rest(last.win, r.i)>>
    IN /\ scan # <<>> =>
            scan[1] = IF first = DQuote THEN Quoted(Double)
                      ELSE IF first = SQuote THEN Quoted(Single)
                      ELSE Default
       /\ (scan = <<>>) = (first = Comma)
       /\ scan = r.states
       /\ IF r.found
          THEN <<last.tok, remaining>> = cut
          ELSE last.tok = last.win /\ WindowEmpty

\* the same window "'a" of ",'a," is scanned after a call from each end,
\* here by next_back() after next()
C15_Witness ==
  /\ last.some /\ last.op = "next_back"
  /\ Len(yielded_front) = 1 /\ Len(yielded_back) = 2
  /\ LastWindow = <<SQuote, Other>>
  /\ scan = <<Default, Quoted(Single)>>

(* ---------- C16 ---------- *)
\* the offsets of text inside some yielded token
YieldedChars == UNION {Chars(AllYielded[a]) : a \in DOMAIN AllYielded}

\* C16: yielded tokens are ranges of the input that pairwise share no
\* character; a call that cuts its token off at a comma leaves exactly that
\* one character between the token and the window left, and a call that
\* finds no such comma takes the whole window; once the window is empty
\* every character outside the yielded tokens is a comma.
C16_Partition ==
  /\ \A a \in DOMAIN AllYielded :
       /\ 0 <= AllYielded[a].lo
       /\ AllYielded[a].lo <= AllYielded[a].hi
       /\ AllYielded[a].hi <= Len(text)
       /\ \A b \in DOMAIN AllYielded :
            a # b => Chars(AllYielded[a]) \cap Chars(AllYielded[b]) = {}
  /\ last.some =>
       \/ last.tok = last.win /\ WindowEmpty
       \/ /\ last.op = "next"
          /\ last.tok.lo = last.win.lo
          /\ remaining = [lo |-> last.tok.hi + 1, hi |-> last.win.hi]
          /\ text[last.tok.hi + 1] = Comma
       \/ /\ last.op = "next_back"
          /\ last.tok.hi = last.win.hi
          /\ remaining = [lo |-> last.win.lo, hi |-> last.tok.lo - 1]
          /\ text[last.tok.lo] = Comma
  /\ WindowEmpty =>
       \A k \in 0..(Len(text) - 1) :
          k \notin YieldedChars => text[k + 1] = Comma

\* four tokens taken from both ends of a five character input, nothing left
C16_Witness ==
  /\ WindowEmpty
  /\ Len(text) = 5
  /\ Len(yielded_front) = 2 /\ Len(yielded_back) = 2
  /\ Cardinality(YieldedChars) = 2

(* ---------- C17 ---------- *)
\* C17: a non-empty token returned by next() has no comma outside its own
\* quoted spans, and next() alone over that token yields the token and
\* nothing else.
C17_Idempotent ==
  (last.op = "next" /\ last.some /\ TokLen > 0) =>
    /\ DelimitingCommas(Slice(text, last.tok.lo, last.tok.hi)) = {}
    /\ forward_tokens(text, last.tok) = <<last.tok>>

\* next() cut a token with a quoted comma off a window that went on
C17_Witness ==
  /\ last.op = "next" /\ last.some
  /\ Slice(text, last.tok.lo, last.tok.hi) = <<SQuote, Comma, SQuote>>
  /\ ~WindowEmpty

(* ---------- C18 ---------- *)
\* C18: no next_back() scan is ever in QuotedEscape; a next() scan is in
\* QuotedEscape only right after a backslash met in Quoted, and the state
\* after the following character is Quoted again.
C18_QuotedEscapeReach ==
  /\ last.op = "next_back" =>
       \A k \in DOMAIN scan : scan[k].tag # "QuotedEscape"
  /\ last.op = "next" =>
       \A j \in DOMAIN scan :
          scan[j].tag = "QuotedEscape" =>
            /\ ScanBefore(j).tag = "Quoted"
            /\ LastWindow[j] = Backslash
            /\ j < Len(scan) => scan[j + 1].tag = "Quoted"

\* next_back() has visited a backslash while in Quoted
C18_Witness ==
  /\ last.op = "next_back" /\ last.some
  /\ \E k \in DOMAIN scan :
       BackBefore(k).tag = "Quoted" /\ LastWindow[BackPos(k)] = Backslash

\* next() has been in QuotedEscape and left it on a backslash
C18_WitnessForward ==
  /\ last.op = "next" /\ last.some
  /\ \E j \in DOMAIN scan :
       /\ scan[j].tag = "QuotedEscape"
       /\ j < Len(scan) /\ LastWindow[j + 1] = Backslash
====
